---- MODULE Spec2Model ----
(***************************************************************************)
(* Sliding-window ARQ sender and receiver of swp.py, composed over the     *)
(* unreliable datagram transport (llp).  Two variants of swp.py are in the *)
(* repository, src/40269583/swp.py and src/TestCode/swp.py; the variable   *)
(* impl says which one runs.                                               *)
(*                                                                         *)
(* Bytes of application data are represented by the slice they are taken   *)
(* from: <<lo, hi>> stands for data[lo:hi].  A raw packet is               *)
(* [hdr |-> the header bytes, body |-> the payload slice].                 *)
(***************************************************************************)
EXTENDS Integers, Sequences, FiniteSets, TLC

\* ------------------------------------------------------------------ bounds
\* Largest number of segments of the data handed to send().
MaxSegs == 6
\* Timer firings the model lets happen.
MaxFired == 1
\* How far the transport reorders: recv hands out one of the first MaxReorder
\* datagrams queued for the endpoint.
MaxReorder == 2
\* Datagrams that reach the sender's socket from outside (SenderSpec).
MaxToSender == 2
\* Datagrams that reach the receiver's socket from outside (ReceiverSpec).
MaxToReceiver == 4
\* Largest number of segments of the data in the short composed runs (ShortSpec).
MaxShortSegs == 2

\* ------------------------------------------------------- program constants
MAX_DATA_SIZE == 1400
HEADER_SIZE == 5
SEND_WINDOW_SIZE == 5
DATA == 68
ACK == 65

VARIABLES
    impl,                   \* which swp.py runs: "40269583" or "TestCode"
    loss_probability,       \* the endpoints' loss_probability: 0 or 1 (some loss)
    data_len,               \* len(data) of the send(data) call
    app_pc,                 \* application thread in send(): "send", "check", "sleep", "done"
    app_i,                  \* loop variable i of send()
    lock_held,              \* SWPSender._lock is held by the thread inside _send
    send_window,            \* SWPSender._send_window: sequence of packets
    next_seq_num,           \* SWPSender._next_seq_num
    timers,                 \* pending threading.Timer objects: seq_num -> how many
    fired,                  \* timers that have fired so far
    s_pc,                   \* SWPSender._recv thread: "recv", "lock", "dead"
    s_ack,                  \* ACK seq_num that thread holds while it waits for the lock
    chan_d,                 \* datagrams on their way to the receiver's endpoint
    chan_a,                 \* datagrams on their way to the sender's endpoint
    r_pc,                   \* SWPReceiver._recv thread: "recv", "dead"
    recv_buffer,            \* SWPReceiver._recv_buffer: seq_num -> payload
    next_expected_seq_num,  \* SWPReceiver._next_expected_seq_num
    ready_data,             \* SWPReceiver._ready_data (queue.Queue)
    app_recvd,              \* payloads recv() has returned to the application
    s_init,                 \* SWPSender.__init__ has assigned _send_window, _next_seq_num, _lock
    r_init,                 \* SWPReceiver.__init__ has assigned _recv_buffer, _next_expected_seq_num, _lock
    injected,               \* datagrams that reached a socket from outside
    ack_run                 \* history: <<k, n>>, ACK(k) was processed n times in succession (n capped at 2)

senderVars == <<app_pc, app_i, lock_held, send_window, next_seq_num, timers, fired, s_pc, s_ack>>
receiverVars == <<r_pc, recv_buffer, next_expected_seq_num, ready_data, app_recvd>>
envVars == <<impl, loss_probability, data_len>>
ctorVars == <<s_init, r_init>>
vars == <<envVars, ctorVars, senderVars, receiverVars, chan_d, chan_a, injected, ack_run>>

\* --------------------------------------------------------------- helpers
Min(a, b) == IF a < b THEN a ELSE b

Remove(s, i) == SubSeq(s, 1, i - 1) \o SubSeq(s, i + 1, Len(s))

EmptyBytes == <<0, 0>>

EmptyDict == [x \in {} |-> EmptyBytes]

\* ------------------------------------------------------------ Packet codec
SWPPacket(type, seq_num, data) == [type |-> type, seq_num |-> seq_num, data |-> data]

\* struct.pack('!BI', ...) accepts an 'I' argument n only when 0 <= n < 2^32.
PackFits(n) == n >= 0 /\ n \div 65536 < 65536

\* the four big-endian bytes of n
BE32(n) == << (n \div 16777216) % 256, (n \div 65536) % 256, (n \div 256) % 256, n % 256 >>

\* SWPPacket.to_bytes raises struct.error when the seq_num does not fit
to_bytes_raises(p) == ~PackFits(p.seq_num)

to_bytes(p) == [hdr |-> <<p.type>> \o BE32(p.seq_num), body |-> p.data]

\* SWPPacket.from_bytes raises struct.error on fewer than 5 bytes and
\* ValueError on a type tag that is neither DATA nor ACK
from_bytes_raises(raw) == Len(raw.hdr) < HEADER_SIZE \/ raw.hdr[1] \notin {DATA, ACK}

from_bytes(raw) ==
    SWPPacket(raw.hdr[1],
              raw.hdr[2] * 16777216 + raw.hdr[3] * 65536 + raw.hdr[4] * 256 + raw.hdr[5],
              raw.body)

\* -------------------------------------------------------------- transport
\* LLPEndpoint.send: fire and forget
LlpSend(chan, raw) == Append(chan, raw)

LlpSendAll(chan, raws) == chan \o raws

\* LLPEndpoint.recv hands out one datagram that reached the socket; the transport
\* may reorder, so it is the i-th of those on their way
LlpRecv(chan, i) == chan[i]

\* ----------------------------------------------------------------- timers
TimerCount(t, s) == IF s \in DOMAIN t THEN t[s] ELSE 0

\* mutant: the timer is made but never started
TimerStart_none(t, s) == t

\* threading.Timer(_TIMEOUT, self._retransmit, args=[s]).start()
TimerStart(t, s) == [x \in DOMAIN t \cup {s} |-> IF x = s THEN TimerCount(t, s) + 1 ELSE t[x]]

\* mutant: a timer that has fired stays pending
TimerFired_keep(t, s) == t

\* the timer for s has fired and is gone
TimerFired(t, s) ==
    IF t[s] > 1 THEN [t EXCEPT ![s] = @ - 1] ELSE [x \in DOMAIN t \ {s} |-> t[x]]

\* ----------------------------------------------------------------- sender
\* mutant: every segment carries the first chunk of the data
Chunk_first(i) == <<0, Min(MAX_DATA_SIZE, data_len)>>

\* data[i:i+MAX_DATA_SIZE]
Chunk(i) == <<i, Min(i + MAX_DATA_SIZE, data_len)>>

\* mutant: the test lets one more entry in
WindowFull_gt(w) == Len(w) > SEND_WINDOW_SIZE

\* len(self._send_window) >= self._SEND_WINDOW_SIZE
WindowFull(w) == Len(w) >= SEND_WINDOW_SIZE

\* mutant: the entry with the acknowledged seq_num itself stays
AckWindow_ge(w, k) == SelectSeq(w, LAMBDA p : p.seq_num >= k)

\* mutant: an ACK removes one entry, the oldest, if it covers it
AckWindow_one(w, k) == IF w # <<>> /\ Head(w).seq_num <= k THEN Tail(w) ELSE w

\* mutant: every ACK slides the window by one entry
AckWindow_slide(w, k) == IF w # <<>> THEN Tail(w) ELSE w

\* [(p, t) for p, t in self._send_window if p.seq_num > packet.seq_num]
AckWindow(w, k) == SelectSeq(w, LAMBDA p : p.seq_num > k)

\* next((packet for packet, _ in self._send_window if packet.seq_num == seq_num), None)
InWindow(w, s) == \E j \in 1..Len(w) : w[j].seq_num = s

\* mutant: the oldest entry of the window is retransmitted, whatever s
FindPacket_oldest(w, s) == w[1]

FindPacket(w, s) == w[CHOOSE j \in 1..Len(w) : w[j].seq_num = s /\ \A h \in 1..(j - 1) : w[h].seq_num # s]

\* TestCode's _handle_ack then looks for the acknowledged seq_num in the new
\* window and calls cancel() on the entry's time stamp, a float: AttributeError
CancelRaises(w, k) == impl = "TestCode" /\ InWindow(w, k)

\* send(): the for loop calls _send, which takes the lock
AppAcquire ==
    /\ s_init
    /\ app_pc = "send"
    /\ ~lock_held
    /\ lock_held' = TRUE
    /\ app_pc' = "check"
    /\ UNCHANGED <<envVars, ctorVars, app_i, send_window, next_seq_num, timers, fired, s_pc, s_ack,
                   receiverVars, chan_d, chan_a, injected, ack_run>>

\* _send: the window is full, so sleep with the lock held
AppWindowFull ==
    /\ app_pc = "check"
    /\ WindowFull(send_window)
    /\ app_pc' = "sleep"
    /\ UNCHANGED <<envVars, ctorVars, app_i, lock_held, send_window, next_seq_num, timers, fired, s_pc,
                   s_ack, receiverVars, chan_d, chan_a, injected, ack_run>>

\* _send: time.sleep(0.1) returns and the loop tests the window again
AppSleep ==
    /\ app_pc = "sleep"
    /\ app_pc' = "check"
    /\ UNCHANGED <<envVars, ctorVars, app_i, lock_held, send_window, next_seq_num, timers, fired, s_pc,
                   s_ack, receiverVars, chan_d, chan_a, injected, ack_run>>

\* _send: there is room; transmit, append to the window, start the timer,
\* count the seq_num up, release the lock and go round the loop of send()
AppSendSegment ==
    /\ app_pc = "check"
    /\ ~WindowFull(send_window)
    /\ LET packet == SWPPacket(DATA, next_seq_num, Chunk(app_i))
       IN /\ chan_d' = LlpSend(chan_d, to_bytes(packet))
          /\ send_window' = Append(send_window, packet)
          /\ timers' = TimerStart(timers, next_seq_num)
    /\ next_seq_num' = next_seq_num + 1
    /\ lock_held' = FALSE
    /\ app_i' = app_i + MAX_DATA_SIZE
    /\ app_pc' = IF app_i + MAX_DATA_SIZE < data_len THEN "send" ELSE "done"
    /\ ack_run' = <<0, 0>>
    /\ UNCHANGED <<envVars, ctorVars, fired, s_pc, s_ack, receiverVars, chan_a, injected>>

\* _retransmit(s): the timer for s fires and gets the lock
Retransmit(s) ==
    /\ TimerCount(timers, s) > 0
    /\ ~lock_held
    /\ fired < MaxFired
    /\ fired' = fired + 1
    /\ IF InWindow(send_window, s)
       THEN /\ chan_d' = LlpSend(chan_d, to_bytes(FindPacket(send_window, s)))
            /\ timers' = TimerStart(TimerFired(timers, s), s)
       ELSE /\ timers' = TimerFired(timers, s)
            /\ UNCHANGED chan_d
    /\ UNCHANGED <<envVars, ctorVars, app_pc, app_i, lock_held, send_window, next_seq_num, s_pc, s_ack,
                   receiverVars, chan_a, injected, ack_run>>

\* SWPSender._recv: a datagram comes out of the endpoint and is decoded; an
\* ACK takes the thread to the lock, an exception ends the thread. When
\* __init__ has not yet assigned self._lock, "with self._lock" raises
\* AttributeError.
SenderRecv(i) ==
    /\ s_pc = "recv"
    /\ i \in 1..Len(chan_a)
    /\ chan_a' = Remove(chan_a, i)
    /\ IF from_bytes_raises(LlpRecv(chan_a, i))
       THEN /\ s_pc' = "dead"
            /\ UNCHANGED s_ack
       ELSE \E packet \in {from_bytes(LlpRecv(chan_a, i))} :
               IF packet.type = ACK
               THEN IF s_init
                    THEN /\ s_pc' = "lock"
                         /\ s_ack' = packet.seq_num
                    ELSE /\ s_pc' = "dead"
                         /\ UNCHANGED s_ack
               ELSE UNCHANGED <<s_pc, s_ack>>
    /\ UNCHANGED <<envVars, ctorVars, app_pc, app_i, lock_held, send_window, next_seq_num, timers, fired,
                   receiverVars, chan_d, injected, ack_run>>

\* SWPSender._recv: the endpoint drops the datagram and returns None; continue
SenderRecvNone(i) ==
    /\ s_pc = "recv"
    /\ loss_probability > 0
    /\ i \in 1..Len(chan_a)
    /\ chan_a' = Remove(chan_a, i)
    /\ UNCHANGED <<envVars, ctorVars, senderVars, receiverVars, chan_d, injected, ack_run>>

\* SWPSender._recv / _handle_ack: with the lock, drop the acknowledged entries
SenderHandleAck ==
    /\ s_pc = "lock"
    /\ ~lock_held
    /\ send_window' = AckWindow(send_window, s_ack)
    /\ s_pc' = IF CancelRaises(AckWindow(send_window, s_ack), s_ack) THEN "dead" ELSE "recv"
    /\ s_ack' = 0
    /\ ack_run' = IF ack_run[2] > 0 /\ ack_run[1] = s_ack THEN <<s_ack, 2>> ELSE <<s_ack, 1>>
    /\ UNCHANGED <<envVars, ctorVars, app_pc, app_i, lock_held, next_seq_num, timers, fired,
                   receiverVars, chan_d, chan_a, injected>>

\* --------------------------------------------------------------- receiver
\* self._recv_buffer[packet.seq_num] = packet.data
BufferPut(buf, k, d) == [x \in DOMAIN buf \cup {k} |-> IF x = k THEN d ELSE buf[x]]

\* self._recv_buffer.pop(k)
BufferPop(buf, k) == [x \in DOMAIN buf \ {k} |-> buf[x]]

\* while self._next_expected_seq_num in self._recv_buffer: pop, put, count up
RECURSIVE Drain(_, _, _)
Drain(buf, ne, ready) ==
    IF ne \in DOMAIN buf
    THEN Drain(BufferPop(buf, ne), ne + 1, Append(ready, buf[ne]))
    ELSE [buf |-> buf, ne |-> ne, ready |-> ready]

\* mutant: the ACK names the next expected seq_num
AckPacket_next(ne) == SWPPacket(ACK, ne, EmptyBytes)

\* _send_ack builds SWPPacket(SWPType.ACK, self._next_expected_seq_num - 1)
AckPacket(ne) == SWPPacket(ACK, ne - 1, EmptyBytes)

\* if packet.seq_num < self._next_expected_seq_num: self._send_ack()
AlreadyAcked(p, ne) == p.seq_num < ne

\* mutant: an already released segment is put on the ready queue again
HandleData_requeue(buf, ne, ready, p) ==
    LET d == Drain(BufferPut(buf, p.seq_num, p.data), ne,
                   IF AlreadyAcked(p, ne) THEN Append(ready, p.data) ELSE ready)
    IN [buf |-> d.buf, ne |-> d.ne, ready |-> d.ready,
        tx |-> (IF AlreadyAcked(p, ne) THEN <<to_bytes(AckPacket(ne))>> ELSE <<>>)
               \o (IF to_bytes_raises(AckPacket(d.ne)) THEN <<>> ELSE <<to_bytes(AckPacket(d.ne))>>),
        raised |-> to_bytes_raises(AckPacket(d.ne))]

\* The body of "with self._lock" for a DATA packet p: what it leaves in the
\* buffer, the counter and the queue, the ACKs it transmitted, and whether
\* to_bytes raised in _send_ack (the statements before the raise have run)
HandleData(buf, ne, ready, p) ==
    IF AlreadyAcked(p, ne) /\ to_bytes_raises(AckPacket(ne))
    THEN [buf |-> buf, ne |-> ne, ready |-> ready, tx |-> <<>>, raised |-> TRUE]
    ELSE LET first == IF AlreadyAcked(p, ne) THEN <<to_bytes(AckPacket(ne))>> ELSE <<>>
             Drained(d) ==
                 [buf |-> d.buf, ne |-> d.ne, ready |-> d.ready,
                  tx |-> first \o (IF to_bytes_raises(AckPacket(d.ne))
                                   THEN <<>> ELSE <<to_bytes(AckPacket(d.ne))>>),
                  raised |-> to_bytes_raises(AckPacket(d.ne))]
         IN Drained(Drain(BufferPut(buf, p.seq_num, p.data), ne, ready))

\* SWPReceiver._recv: a datagram comes out of the endpoint, is decoded and,
\* if DATA, handled; an exception ends the thread. When __init__ has not yet
\* assigned self._lock, "with self._lock" raises AttributeError.
ReceiverRecv(i) ==
    /\ r_pc = "recv"
    /\ i \in 1..Len(chan_d)
    /\ chan_d' = Remove(chan_d, i)
    /\ IF from_bytes_raises(LlpRecv(chan_d, i))
       THEN /\ r_pc' = "dead"
            /\ UNCHANGED <<recv_buffer, next_expected_seq_num, ready_data, chan_a>>
       ELSE \E packet \in {from_bytes(LlpRecv(chan_d, i))} :
               IF packet.type = DATA
               THEN IF r_init
                    THEN \E h \in {HandleData(recv_buffer, next_expected_seq_num, ready_data, packet)} :
                            /\ recv_buffer' = h.buf
                            /\ next_expected_seq_num' = h.ne
                            /\ ready_data' = h.ready
                            /\ chan_a' = LlpSendAll(chan_a, h.tx)
                            /\ r_pc' = IF h.raised THEN "dead" ELSE "recv"
                    ELSE /\ r_pc' = "dead"
                         /\ UNCHANGED <<recv_buffer, next_expected_seq_num, ready_data, chan_a>>
               ELSE UNCHANGED <<r_pc, recv_buffer, next_expected_seq_num, ready_data, chan_a>>
    /\ UNCHANGED <<envVars, ctorVars, senderVars, app_recvd, injected, ack_run>>

\* SWPReceiver._recv: the endpoint drops the datagram and returns None.
\* TestCode continues; 40269583 passes None to from_bytes: TypeError
ReceiverRecvNone(i) ==
    /\ r_pc = "recv"
    /\ loss_probability > 0
    /\ i \in 1..Len(chan_d)
    /\ chan_d' = Remove(chan_d, i)
    /\ r_pc' = IF impl = "TestCode" THEN "recv" ELSE "dead"
    /\ UNCHANGED <<envVars, ctorVars, senderVars, recv_buffer, next_expected_seq_num, ready_data,
                   app_recvd, chan_a, injected, ack_run>>

\* recv(): self._ready_data.get()
AppRecv ==
    /\ ready_data # <<>>
    /\ app_recvd' = Append(app_recvd, Head(ready_data))
    /\ ready_data' = Tail(ready_data)
    /\ UNCHANGED <<envVars, ctorVars, senderVars, r_pc, recv_buffer, next_expected_seq_num,
                   chan_d, chan_a, injected, ack_run>>

\* ----------------------------------------------------------- constructors
\* SWPSender.__init__ assigns _send_window, _next_seq_num and _lock. In
\* 40269583 that is after the ingestion thread was started, in TestCode before.
SenderConstructed ==
    /\ ~s_init
    /\ s_init' = TRUE
    /\ UNCHANGED <<envVars, r_init, senderVars, receiverVars, chan_d, chan_a, injected, ack_run>>

\* SWPReceiver.__init__ assigns _recv_buffer, _next_expected_seq_num and _lock
ReceiverConstructed ==
    /\ ~r_init
    /\ r_init' = TRUE
    /\ UNCHANGED <<envVars, s_init, senderVars, receiverVars, chan_d, chan_a, injected, ack_run>>

\* ------------------------------------------------------------ outside party
\* len(range(0, n, MAX_DATA_SIZE)): the number of segments of n bytes
NumSegs(n) == (n + MAX_DATA_SIZE - 1) \div MAX_DATA_SIZE

\* the DATA packet the sender makes of segment s of the data
DataPacket(s) == SWPPacket(DATA, s, <<s * MAX_DATA_SIZE, Min((s + 1) * MAX_DATA_SIZE, data_len)>>)

\* datagrams that do not decode: too short, and with an unknown type tag
Malformed ==
    {[hdr |-> <<DATA, 0, 0>>, body |-> EmptyBytes], [hdr |-> <<88, 0, 0, 0, 0>>, body |-> EmptyBytes]}

\* ACK values that reach the sender when it is taken alone: the first
\* seq_num, the one that clears a full window of the first five, and one
\* never transmitted
AckValues == {0, SEND_WINDOW_SIZE - 1, MaxSegs}

\* What may reach the sender's socket when the sender is taken alone: ACKs,
\* a datagram that does not decode, a DATA packet
ToSender ==
    {to_bytes(SWPPacket(ACK, k, EmptyBytes)) : k \in AckValues}
    \cup Malformed \cup {to_bytes(SWPPacket(DATA, 0, EmptyBytes))}

\* What may reach the receiver's socket when the receiver is taken alone: the
\* segments of the data in any order and any number of times, a datagram
\* that does not decode, an ACK
ToReceiver ==
    {to_bytes(DataPacket(s)) : s \in 0..(NumSegs(data_len) - 1)}
    \cup Malformed \cup {to_bytes(SWPPacket(ACK, 0, EmptyBytes))}

\* The outside party hands a socket one datagram at a time: its next datagram
\* arrives when the socket holds none, so datagrams are received in the order
\* the outside party chose.
ArriveAtSender(raw) ==
    /\ chan_a = <<>>
    /\ injected < MaxToSender
    /\ injected' = injected + 1
    /\ chan_a' = LlpSend(chan_a, raw)
    /\ UNCHANGED <<envVars, ctorVars, senderVars, receiverVars, chan_d, ack_run>>

ArriveAtReceiver(raw) ==
    /\ chan_d = <<>>
    /\ injected < MaxToReceiver
    /\ injected' = injected + 1
    /\ chan_d' = LlpSend(chan_d, raw)
    /\ UNCHANGED <<envVars, ctorVars, senderVars, receiverVars, chan_a, ack_run>>

\* ---------------------------------------------------------- specifications
DataLens == {MAX_DATA_SIZE + 1, MAX_DATA_SIZE * MaxSegs}

\* the ingestion threads wait in recv, nothing sent yet
Started ==
    /\ app_pc = "send"
    /\ app_i = 0
    /\ lock_held = FALSE
    /\ send_window = <<>>
    /\ next_seq_num = 0
    /\ timers = [x \in {} |-> 0]
    /\ fired = 0
    /\ s_pc = "recv"
    /\ s_ack = 0
    /\ chan_d = <<>>
    /\ chan_a = <<>>
    /\ r_pc = "recv"
    /\ recv_buffer = EmptyDict
    /\ next_expected_seq_num = 0
    /\ ready_data = <<>>
    /\ app_recvd = <<>>
    /\ injected = 0
    /\ ack_run = <<0, 0>>

\* the endpoints after construction
InitState == s_init = TRUE /\ r_init = TRUE /\ Started

InitCommon == data_len \in DataLens /\ InitState

Init == InitCommon /\ impl \in {"40269583", "TestCode"} /\ loss_probability = 1

\* SWPSender and SWPReceiver made with loss_probability=0
InitReliable == InitCommon /\ impl \in {"40269583", "TestCode"} /\ loss_probability = 0

AppSend == AppAcquire \/ AppWindowFull \/ AppSleep \/ AppSendSegment

\* the datagrams LLPEndpoint.recv may hand out next
Deliverable(chan) == 1..Min(Len(chan), MaxReorder)

Timer == \E s \in DOMAIN timers : Retransmit(s)

\* the composed system over a transport that loses and reorders
Next ==
    \/ AppSend
    \/ Timer
    \/ \E i \in Deliverable(chan_a) : SenderRecv(i)
    \/ \E i \in Deliverable(chan_a) : SenderRecvNone(i)
    \/ SenderHandleAck
    \/ \E i \in Deliverable(chan_d) : ReceiverRecv(i)
    \/ \E i \in Deliverable(chan_d) : ReceiverRecvNone(i)
    \/ AppRecv

Spec == Init /\ [][Next]_vars

\* data of a few segments only
ShortLens == {MAX_DATA_SIZE + 1, MAX_DATA_SIZE * MaxShortSegs}

InitShort ==
    /\ data_len \in ShortLens
    /\ InitState
    /\ impl \in {"40269583", "TestCode"}
    /\ loss_probability = 1

\* The composed system sending data of at most MaxShortSegs segments. That is
\* fewer than SEND_WINDOW_SIZE, so the window never fills and _send never
\* sleeps: AppWindowFull and AppSleep are never enabled and are left out.
ShortNext ==
    \/ AppAcquire
    \/ AppSendSegment
    \/ Timer
    \/ \E i \in Deliverable(chan_a) : SenderRecv(i)
    \/ \E i \in Deliverable(chan_a) : SenderRecvNone(i)
    \/ SenderHandleAck
    \/ \E i \in Deliverable(chan_d) : ReceiverRecv(i)
    \/ \E i \in Deliverable(chan_d) : ReceiverRecvNone(i)
    \/ AppRecv

ShortSpec == InitShort /\ [][ShortNext]_vars

\* The ingestion threads have just been started by the constructors: in
\* 40269583 the state variables are not assigned yet, in TestCode they are.
InitConstruct ==
    /\ data_len \in ShortLens
    /\ impl \in {"40269583", "TestCode"}
    /\ loss_probability = 1
    /\ s_init = (impl = "TestCode")
    /\ r_init = (impl = "TestCode")
    /\ Started

\* the composed system from the start of the ingestion threads on; datagrams
\* from outside may reach the sender's socket
ConstructNext ==
    \/ SenderConstructed
    \/ ReceiverConstructed
    \/ ShortNext
    \/ \E raw \in ToSender : ArriveAtSender(raw)

ConstructSpec == InitConstruct /\ [][ConstructNext]_vars

\* the sender alone: ACKs and other datagrams reach it from outside, in any
\* order the outside chooses
SenderNext ==
    \/ AppSend
    \/ Timer
    \/ SenderRecv(1)
    \/ SenderRecvNone(1)
    \/ SenderHandleAck
    \/ \E raw \in ToSender : ArriveAtSender(raw)

SenderSpec == Init /\ [][SenderNext]_vars

\* the receiver alone: DATA and other datagrams reach it from outside, in any
\* order the outside chooses
ReceiverNext ==
    \/ ReceiverRecv(1)
    \/ ReceiverRecvNone(1)
    \/ AppRecv
    \/ \E raw \in ToReceiver : ArriveAtReceiver(raw)

ReceiverSpec == Init /\ [][ReceiverNext]_vars

\* loss_probability 0 and datagrams delivered in the order sent
ReliableNext ==
    \/ AppSend
    \/ Timer
    \/ SenderRecv(1)
    \/ SenderHandleAck
    \/ ReceiverRecv(1)
    \/ AppRecv

Fairness ==
    /\ WF_vars(AppSend)
    /\ WF_vars(Timer)
    /\ WF_vars(SenderRecv(1) \/ SenderHandleAck)
    /\ WF_vars(ReceiverRecv(1))
    /\ WF_vars(AppRecv)

FairSpec == InitReliable /\ [][ReliableNext]_vars /\ Fairness

\* ------------------------------------------------------------------ claims
\* what has been put on the ready queue so far, in the order it was put
Released == app_recvd \o ready_data

\* the segments of the data, as send() cuts them
SegmentsOf(n) == [j \in 1..NumSegs(n) |-> <<(j - 1) * MAX_DATA_SIZE, Min(j * MAX_DATA_SIZE, n)>>]

IsData(raw) == ~from_bytes_raises(raw) /\ from_bytes(raw).type = DATA

IsDataOf(raw, s) == IsData(raw) /\ from_bytes(raw).seq_num = s

\* segment s has reached the receiver: it was handled, or it waits at the endpoint
Arrived(s) ==
    \/ s < next_expected_seq_num
    \/ s \in DOMAIN recv_buffer
    \/ \E j \in 1..Len(chan_d) : IsDataOf(chan_d[j], s)

\* the receiver will handle nothing more of what has reached it
NothingLeftToHandle == r_pc = "dead" \/ \A j \in 1..Len(chan_d) : ~IsData(chan_d[j])

\* C1: once every segment 0..m-1 of the data has reached the receiver, in any
\* order and any number of times, and the receiver has nothing left to handle,
\* the payloads put on the ready queue are those of 0..m-1, in order, once each;
\* and a payload is put on the queue only when all lower seq_nums are on it.
C1_InOrderRelease ==
    /\ \A j \in 1..Len(Released) : j <= NumSegs(data_len) /\ Released[j] = SegmentsOf(data_len)[j]
    /\ ((\A s \in 0..(NumSegs(data_len) - 1) : Arrived(s)) /\ NothingLeftToHandle)
           => Released = SegmentsOf(data_len)

\* C2: over a transport that drops nothing, send(data) returns and recv()
\* yields, in order, exactly the segments of the data, and that is how it stays.
C2_ZeroLossDelivery == <>[](app_pc = "done" /\ app_recvd = SegmentsOf(data_len))

\* C3: the send window never holds more than N = 5 entries.
C3_WindowBound == Len(send_window) <= 5

\* the window holds 5 entries and _send sleeps, waiting for room
C3_FullAndWaiting == Len(send_window) = 5 /\ app_pc = "sleep"

\* _send waits for room in a full window
Blocked == app_pc \in {"check", "sleep"} /\ WindowFull(send_window)

\* C4: when _send waits for room and an ACK that covers a window entry has
\* been delivered to the sender, the ACK is processed and _send goes on.
C4_BlockedSenderWoken ==
    (Blocked /\ s_pc = "lock" /\ \E j \in 1..Len(send_window) : send_window[j].seq_num <= s_ack)
        ~> ~Blocked

\* the ACKs a step of the receiver handed to the transport
AcksSent == SubSeq(chan_a', Len(chan_a) + 1, Len(chan_a'))

AckBytes(k) == to_bytes(SWPPacket(ACK, k, EmptyBytes))

\* C5: handling a DATA packet whose seq_num is below next_expected resends the
\* cumulative ACK next_expected-1, puts nothing on the ready queue and leaves
\* next_expected as it is.
C5_DuplicateSuppression ==
    [][\A i \in 1..Len(chan_d) :
          (ReceiverRecv(i) /\ IsData(chan_d[i])
              /\ from_bytes(chan_d[i]).seq_num < next_expected_seq_num)
          => /\ ready_data' = ready_data
             /\ Released' = Released
             /\ next_expected_seq_num' = next_expected_seq_num
             /\ r_pc' = "recv"
             /\ Len(AcksSent) >= 1
             /\ \A j \in 1..Len(AcksSent) : AcksSent[j] = AckBytes(next_expected_seq_num - 1)]_vars

\* an already released segment has been handled again: the copy it left in
\* the buffer is below next_expected
C5_DuplicateHandled ==
    r_pc = "recv" /\ \E s \in DOMAIN recv_buffer : s < next_expected_seq_num

\* C6: processing ACK(k) leaves no window entry with seq_num <= k and keeps
\* the entries with seq_num > k, unchanged and in their order.
C6_CumulativeAck ==
    [][SenderHandleAck =>
          \E n \in 0..Len(send_window) :
              /\ send_window' = SubSeq(send_window, n + 1, Len(send_window))
              /\ \A j \in 1..n : send_window[j].seq_num <= s_ack
              /\ \A j \in 1..Len(send_window') : send_window'[j].seq_num > s_ack]_vars

\* an ACK has been processed that removed entries and left others
C6_AckRemovedSome ==
    ack_run[2] > 0 /\ send_window # <<>> /\ send_window[1].seq_num = ack_run[1] + 1

\* C7: processing ACK(k) again, right after ACK(k) was processed, changes
\* neither the window nor the next-sequence counter.
C7_IdempotentAck ==
    [][(SenderHandleAck /\ ack_run[2] > 0 /\ ack_run[1] = s_ack)
          => (send_window' = send_window /\ next_seq_num' = next_seq_num)]_vars

\* ACK(k) has been processed twice in succession on a window it had cut
C7_AckedTwice ==
    ack_run[2] = 2 /\ send_window # <<>> /\ send_window[1].seq_num = ack_run[1] + 1

\* C8: handling one DATA packet transmits exactly one ACK, for next_expected-1
\* as it is after draining.
C8_OneAckPerData ==
    [][\A i \in 1..Len(chan_d) :
          (ReceiverRecv(i) /\ IsData(chan_d[i]))
          => AcksSent = <<AckBytes(next_expected_seq_num' - 1)>>]_vars

\* C9: in 40269583, when recv returns None the ingestion loop of the sender
\* and that of the receiver go round again: the thread lives on and no
\* protocol state changes.
C9_EmptySignalRetried ==
    [][impl = "40269583" =>
          /\ \A i \in 1..Len(chan_a) :
                SenderRecvNone(i)
                => s_pc' = "recv" /\ UNCHANGED <<send_window, next_seq_num, timers>>
          /\ \A i \in 1..Len(chan_d) :
                ReceiverRecvNone(i)
                => r_pc' = "recv" /\ UNCHANGED <<recv_buffer, next_expected_seq_num, ready_data>>]_vars

\* C10: a datagram that does not decode is discarded: the ingestion thread that
\* got it lives on and no protocol state changes.
C10_MalformedDiscarded ==
    [][/\ \A i \in 1..Len(chan_a) :
             (SenderRecv(i) /\ from_bytes_raises(chan_a[i]))
             => s_pc' = "recv" /\ UNCHANGED <<send_window, next_seq_num, timers>>
       /\ \A i \in 1..Len(chan_d) :
             (ReceiverRecv(i) /\ from_bytes_raises(chan_d[i]))
             => r_pc' = "recv" /\ UNCHANGED <<recv_buffer, next_expected_seq_num, ready_data>>]_vars

\* an entry of the window whose timer is pending
Unacked(s) == InWindow(send_window, s) /\ TimerCount(timers, s) > 0

\* C11: window entries that no ACK covers are retransmitted again and again:
\* while entries stay in the window and firings are left to the model
\* (fired < MaxFired), a timer gets the lock and fires.
C11_RetransmitsWhileUnacked ==
    ((\E s \in 0..(MaxSegs - 1) : Unacked(s)) /\ fired < MaxFired)
        ~> (send_window = <<>> \/ fired = MaxFired)

\* C12: every ACK packet the receiver constructs has a seq_num that fits the
\* unsigned 32-bit field, and the receiver keeps running, whatever DATA
\* packet it handles.
C12_AckFitsWireField ==
    [][\A i \in 1..Len(chan_d) :
          (ReceiverRecv(i) /\ IsData(chan_d[i]))
          => /\ PackFits(AckPacket(next_expected_seq_num').seq_num)
             /\ r_pc' = "recv"]_vars

\* C13: processing ACK(k) when the window holds no entry with seq_num = k
\* (already removed, or never transmitted) changes neither the window nor
\* the next-sequence counter.
C13_StaleAckNoOp ==
    [][(SenderHandleAck /\ ~InWindow(send_window, s_ack))
          => (send_window' = send_window /\ next_seq_num' = next_seq_num)]_vars

\* C13 as amended: processing ACK(k) when the window holds no entry with
\* seq_num <= k changes neither the window nor the next-sequence counter.
C13_StaleAckNoOp_Amended ==
    [][(SenderHandleAck /\ \A j \in 1..Len(send_window) : send_window[j].seq_num > s_ack)
          => (send_window' = send_window /\ next_seq_num' = next_seq_num)]_vars

\* ACK(k) has been processed on a window whose entries were all above k: the
\* entries left begin beyond k + 1
C13_StaleAckProcessed ==
    ack_run[2] > 0 /\ send_window # <<>> /\ send_window[1].seq_num > ack_run[1] + 1

\* C14: between the handlings of DATA packets every key of the receive
\* buffer is strictly greater than next_expected: the buffer holds only
\* segments that wait for a missing predecessor.
C14_BufferAboveNextExpected ==
    \A k \in DOMAIN recv_buffer : k > next_expected_seq_num

\* C15: when the timer for s fires and the window has no entry for s,
\* nothing is transmitted, no timer is armed (the one that fired is gone and
\* the others are as they were), and the window and the next-sequence counter
\* are unchanged.
C15_StaleTimerNoOp ==
    [][\A s \in DOMAIN timers :
          (Retransmit(s) /\ ~InWindow(send_window, s))
          => /\ chan_d' = chan_d
             /\ TimerCount(timers', s) = TimerCount(timers, s) - 1
             /\ \A x \in (DOMAIN timers \cup DOMAIN timers') \ {s} :
                    TimerCount(timers', x) = TimerCount(timers, x)
             /\ send_window' = send_window
             /\ next_seq_num' = next_seq_num]_vars

\* a timer has fired for a seq_num that had left the window: that seq_num
\* was transmitted and has no timer any more
C15_StaleTimerFired ==
    fired > 0 /\ \E s \in 0..(next_seq_num - 1) :
        TimerCount(timers, s) = 0 /\ ~InWindow(send_window, s)

\* C16: in every reachable state of the sender, the steps under the lock
\* taken whole, each entry of the send window has exactly one pending timer
\* for its seq_num (armed, or fired and waiting for the lock), and no seq_num
\* has two.
C16_OneTimerPerEntry ==
    /\ \A j \in 1..Len(send_window) : TimerCount(timers, send_window[j].seq_num) = 1
    /\ \A s \in DOMAIN timers : timers[s] <= 1

\* an entry has been retransmitted and is still in the window with its timer
C16_RearmedEntry ==
    /\ fired > 0
    /\ \E j \in 1..Len(send_window) :
          Cardinality({h \in 1..Len(chan_d) : chan_d[h] = to_bytes(send_window[j])}) > 1

StrictlyIncreasing(w) == \A j \in 1..(Len(w) - 1) : w[j].seq_num < w[j + 1].seq_num

\* C17: the n-th segment handed to _send gets seq_num n-1 and carries the
\* n-th chunk of the data; its seq_num is above that of every DATA packet
\* transmitted before; the next-sequence counter never decreases; the window
\* is always in strictly increasing seq_num order.
C17_SeqNumsInOrder ==
    [][/\ next_seq_num' >= next_seq_num
       /\ StrictlyIncreasing(send_window')
       /\ AppSendSegment
            => /\ app_i = next_seq_num * MAX_DATA_SIZE
               /\ chan_d' = Append(chan_d, to_bytes(DataPacket(next_seq_num)))
               /\ send_window' = Append(send_window, DataPacket(next_seq_num))
               /\ next_seq_num' = next_seq_num + 1
               /\ \A h \in 1..Len(chan_d) :
                      IsData(chan_d[h]) => from_bytes(chan_d[h]).seq_num < next_seq_num]_vars

\* several segments have been sent and are in the window
C17_SeveralSent == next_seq_num >= 3 /\ Len(send_window) >= 2

\* C18: a packet in the send window stays there, unchanged, through every
\* step but the processing of an ACK(k) with k >= its seq_num; a timer firing
\* for it transmits that same packet and leaves the window as it is.
C18_EntryLifeCycle ==
    [][\A j \in 1..Len(send_window) :
          /\ (\E h \in 1..Len(send_window') : send_window'[h] = send_window[j])
                \/ (SenderHandleAck /\ s_ack >= send_window[j].seq_num)
          /\ Retransmit(send_window[j].seq_num)
                => /\ chan_d' = Append(chan_d, to_bytes(send_window[j]))
                   /\ send_window' = send_window]_vars

\* an entry that is not the oldest has been retransmitted and is still in
\* the window
C18_RetransmittedInPlace ==
    \E j \in 2..Len(send_window) :
        Cardinality({h \in 1..Len(chan_d) : chan_d[h] = to_bytes(send_window[j])}) = 2

\* C19: in the composed system, over a transport that drops and reorders but
\* forges nothing, every ACK on its way to the sender or held by it is below
\* next_expected, and when the sender removes the entry for seq_num s the
\* receiver has already put the payload of s on its ready queue.
C19_AckedImpliesDelivered ==
    [][/\ \A h \in 1..Len(chan_a) :
             (~from_bytes_raises(chan_a[h]) /\ from_bytes(chan_a[h]).type = ACK)
             => from_bytes(chan_a[h]).seq_num < next_expected_seq_num
       /\ SenderHandleAck
            => \A j \in 1..Len(send_window) :
                  send_window[j].seq_num <= s_ack
                  => /\ send_window[j].seq_num < next_expected_seq_num
                     /\ Len(Released) > send_window[j].seq_num
                     /\ Released[send_window[j].seq_num + 1] = send_window[j].data]_vars

\* an ACK has removed entries from the window and left others
C19_EntryAcked ==
    /\ ack_run[2] > 0
    /\ next_expected_seq_num > 0
    /\ send_window # <<>> /\ send_window[1].seq_num = ack_run[1] + 1

\* C20: in 40269583 the ingestion thread of the sender handles no ACK, and
\* that of the receiver no DATA packet, before the constructor has assigned
\* the lock, the window, the buffer and the counters.
C20_NoUseBeforeInit ==
    [][impl = "40269583" =>
          /\ \A i \in 1..Len(chan_a) :
                (SenderRecv(i) /\ ~from_bytes_raises(chan_a[i]) /\ from_bytes(chan_a[i]).type = ACK)
                => s_init
          /\ \A i \in 1..Len(chan_d) :
                (ReceiverRecv(i) /\ IsData(chan_d[i])) => r_init]_vars

====
